---- MODULE Spec2Model ----
(***************************************************************************)
(* A model of the butido build submission pipeline:                        *)
(*   - commands/build.rs   build(): the submission pipeline                *)
(*   - the orchestrator    (run of the job sets on the endpoints)          *)
(*   - filestore/util.rs   FileStoreImpl                                   *)
(*   - package/source.rs   SourceHash / HashType                           *)
(*   - the parsed log      and the report of a failed job's log            *)
(*   - commands/db.rs      the db subcommands submits, jobs, job, releases *)
(***************************************************************************)
EXTENDS Integers, Sequences, FiniteSets, TLC

(***************************************************************************)
(* The state of one build() call and of the orchestrator it runs.          *)
(***************************************************************************)
VARIABLES
  pc,              \* position of build(): the step that runs next, or "done"
  outcome,         \* "running", then what build() returned: "ok" or "err"
  abortedAt,       \* the step whose error build() returned, or "none"
  repo,            \* the repository: the packages with what they declare
  image,           \* the image the caller asked for (image_name)
  noVerification,  \* the caller passed no_verification
  tree,            \* the dependency tree: package -> direct dependencies
  jobsets,         \* the job sets made from the tree
  journal,         \* the rows this submission has written to the database
  found,           \* packages.len() of the repository lookup, -1 before it
  storesLoaded,    \* the stores that have been loaded
  output,          \* what build() has written to stdout after the run
  hadError,        \* had_error
  capacity,        \* endpoint -> configured maximum of concurrent containers
  permits,         \* endpoint -> free permits of its semaphore
  cur,             \* number of the job set the orchestrator is working on
  queue,           \* the ready queue of the current set
  jstate,          \* job -> state of the job
  onEndpoint,      \* job -> the endpoint it was dispatched to, or "none"
  started,         \* job -> how often it was started
  registered,      \* job -> how many of its artifacts are registered
  staging,         \* the artifacts registered in the staging store
  errors           \* job -> number of (job UUID, error) pairs run returns

buildVars ==
  <<pc, outcome, abortedAt, repo, image, noVerification, tree, jobsets, journal,
    found, storesLoaded, output, hadError>>
orchVars == <<capacity, permits, cur, queue, jstate, onEndpoint, started, registered, staging, errors>>

(***************************************************************************)
(* The state of one SourceHash::matches_hash_of call.                      *)
(***************************************************************************)
VARIABLES
  hashtype,   \* SourceHash.hashtype
  declared,   \* SourceHash.value
  content,    \* the whole content behind the reader
  reader,     \* what the reader has not yet handed out
  buffer,     \* the read buffer of hash_from_reader
  hasher,     \* the digest state m
  hpc,        \* position of the call: "loop", "hashed", "returned"
  hashed,     \* what hash_from_reader returned
  matched     \* what matches_hash_of returned

hashVars == <<hashtype, declared, content, reader, buffer, hasher, hpc, hashed, matched>>

(***************************************************************************)
(* The state of one FileStoreImpl and of the file system it is rooted in.  *)
(***************************************************************************)
VARIABLES
  fsys,      \* the file system
  root,      \* FileStoreImpl.root
  store,     \* FileStoreImpl.store: ArtifactPath -> Artifact
  spc,       \* "new" before load, "loaded" after it, "failed" if it failed
  ticks,     \* number of ticks the progress bar has received
  op,        \* the operation that ran last
  arg,       \* the full path it was called with
  ret        \* what it returned

storeVars == <<fsys, root, store, spc, ticks, op, arg, ret>>

(***************************************************************************)
(* The state of the report of one job log: the body of the loop over the   *)
(* failed jobs in build(), and the log part of "db job".                   *)
(***************************************************************************)
VARIABLES
  logText,       \* jobs.log_text of the job, as its lines
  errorLines,    \* config.build_error_lines()
  parsedLog,     \* the ParsedLog built from logText
  lpc,           \* position: "fetched", "map", "printed", "done", "shown"
  lines,         \* the items rendered so far
  lastPhase,     \* last_phase
  errorCatched,  \* error_catched
  printed,       \* the numbered lines written to the output
  trailer        \* what is written below them

logVars == <<logText, errorLines, parsedLog, lpc, lines, lastPhase, errorCatched, printed, trailer>>

(***************************************************************************)
(* The state of one db subcommand on a database and a release directory.   *)
(***************************************************************************)
VARIABLES
  db,        \* the tables of the database
  relfs,     \* the file system holding config.releases_directory()
  cmd,       \* the subcommand that ran last
  cmdArg,    \* the arguments it ran with
  listing,   \* the rows it handed to display_data: row -> number of times
  warned,    \* the releases it has warned about
  dret       \* what it returned

dbVars == <<db, relfs, cmd, cmdArg, listing, warned, dret>>

vars == <<buildVars, orchVars, hashVars, storeVars, logVars, dbVars>>

(***************************************************************************)
(* Bounds of the model.                                                    *)
(***************************************************************************)
\* config.docker().endpoints(): the configured endpoints, in their order
ConfiguredEndpoints == <<"ep-a", "ep-b">>
\* largest configured capacity (maximum concurrent containers) of an endpoint
MaxCapacity == 2
\* number of files a successful job leaves in its output directory
ArtifactsPerJob == 2

Endpoints == {ConfiguredEndpoints[i] : i \in DOMAIN ConfiguredEndpoints}

\* the place of an endpoint in the configuration
EndpointIndex(e) == CHOOSE i \in DOMAIN ConfiguredEndpoints : ConfiguredEndpoints[i] = e

Max(S) == CHOOSE x \in S : \A y \in S : y <= x
Min(S) == CHOOSE x \in S : \A y \in S : x <= y

(***************************************************************************)
(* The dependencies the packages of a repository declare: a package name   *)
(* is mapped to the names of its dependencies; a dependency that is no key *)
(* cannot be resolved.                                                     *)
(***************************************************************************)
NoDeps == {}

DepsSingle == [p \in {"A"} |-> NoDeps]

DepsFork == [p \in {"A", "B", "C"} |->
               IF p = "A" THEN {"B", "C"} ELSE NoDeps]

DepsWide == [p \in {"A", "B", "C", "D"} |->
               IF p = "A" THEN {"B", "C", "D"} ELSE NoDeps]

DepsDiamond == [p \in {"A", "B", "C", "D"} |->
                  CASE p = "A" -> {"B", "C"}
                    [] p = "B" -> {"D"}
                    [] p = "C" -> {"D"}
                    [] OTHER   -> NoDeps]

DepsSkew == [p \in {"A", "B", "C", "D"} |->
               CASE p = "A" -> {"B", "C"}
                 [] p = "B" -> {"D"}
                 [] OTHER   -> NoDeps]

DepsCycle == [p \in {"A", "B"} |-> IF p = "A" THEN {"B"} ELSE {"A"}]

DepsUnresolved == [p \in {"A"} |-> {"Z"}]

RootPackage == "A"

(***************************************************************************)
(* Tree::add_package: the packages reachable from the root.  Expansion     *)
(* fails on a dependency the repository does not hold and on a back-edge.  *)
(***************************************************************************)
RECURSIVE Reach(_, _)
Reach(deps, S) ==
  LET next == S \cup UNION {deps[p] : p \in S \cap DOMAIN deps}
  IN  IF next = S THEN S ELSE Reach(deps, next)

\* the packages p depends on, directly or not
Ancestors(deps, p) ==
  IF p \in DOMAIN deps THEN Reach(deps, deps[p]) ELSE {}

TreeNodes(deps) == Reach(deps, {RootPackage})

HasUnresolved(deps) == \E p \in TreeNodes(deps) : p \notin DOMAIN deps

HasCycle(deps) ==
  \E p \in TreeNodes(deps) \cap DOMAIN deps : p \in Ancestors(deps, p)

TreeBuilds(deps) == ~HasUnresolved(deps) /\ ~HasCycle(deps)

\* the tree: its nodes with their direct dependencies
AddPackage(deps) ==
  [p \in TreeNodes(deps) |-> IF p \in DOMAIN deps THEN deps[p] ELSE NoDeps]

EmptyTree == [p \in {} |-> NoDeps]

(***************************************************************************)
(* JobSet::sets_from_tree: one job per tree node; the jobs are grouped     *)
(* into sets by their position in the build order, the jobs without        *)
(* dependencies first.                                                     *)
(***************************************************************************)
RECURSIVE Level(_, _)
Level(t, j) ==
  IF t[j] = {} THEN 0 ELSE 1 + Max({Level(t, d) : d \in t[j]})

SetsFromTree(t) ==
  IF DOMAIN t = {} THEN << >>
  ELSE LET top == Max({Level(t, j) : j \in DOMAIN t})
       IN  [k \in 1..(top + 1) |-> {j \in DOMAIN t : Level(t, j) = k - 1}]

(***************************************************************************)
(* package/source.rs: SourceHash and HashType.                             *)
(*                                                                         *)
(* A String is modelled by its UTF-8 bytes, a digest by its raw bytes.     *)
(* The digest crates (sha1, sha2) are modelled by one block hasher with    *)
(* the interface the code uses: new, update(bytes), finalize.  The hasher  *)
(* buffers input up to a full block, so that its digest depends on the     *)
(* bytes it was fed and not on how they were split over update calls.      *)
(***************************************************************************)
\* longest content of a hashed file
MaxContentLen == 4
\* length of the read buffer, scaled down (source.rs:99 has 1024)
BufferLen == 3
\* block length of the modelled hashers
BlockLen == 2
\* the bytes a hashed file is made of
ContentBytes == {0, 1}

HashTypes == {"sha1", "sha256", "sha512"}

DigestModulus == 256 * 256

RECURSIVE SeqsUpTo(_, _)
SeqsUpTo(S, n) ==
  IF n = 0 THEN {<< >>}
  ELSE LET shorter == SeqsUpTo(S, n - 1)
       IN  shorter \cup {Append(s, x) : s \in {t \in shorter : Len(t) = n - 1}, x \in S}

Contents == SeqsUpTo(ContentBytes, MaxContentLen)

Take(s, n) == SubSeq(s, 1, n)
Drop(s, n) == SubSeq(s, n + 1, Len(s))

\* the initial chaining value of each algorithm
InitialValue(ht) ==
  CASE ht = "sha1"   -> 4660
    [] ht = "sha256" -> 22136
    [] ht = "sha512" -> 39612

RECURSIVE AbsorbBytes(_, _)
AbsorbBytes(h, bytes) ==
  IF bytes = << >> THEN h
  ELSE AbsorbBytes((h * 33 + Head(bytes) + 1) % DigestModulus, Tail(bytes))

\* the compression of one full block into the chaining value
CompressBlock(h, block) ==
  (AbsorbBytes(h, block) * 251 + 7919) % DigestModulus

\* Digest::new
HasherNew(ht) == [h |-> InitialValue(ht), pending |-> << >>, total |-> 0]

\* Digest::update: full blocks are compressed, the rest is kept pending
RECURSIVE HasherAbsorb(_, _)
HasherAbsorb(m, bytes) ==
  IF Len(m.pending) + Len(bytes) < BlockLen
  THEN [m EXCEPT !.pending = m.pending \o bytes]
  ELSE LET fill == BlockLen - Len(m.pending)
       IN  HasherAbsorb([m EXCEPT !.h = CompressBlock(m.h, m.pending \o Take(bytes, fill)),
                                  !.pending = << >>],
                        Drop(bytes, fill))

HasherUpdate(m, bytes) == [HasherAbsorb(m, bytes) EXCEPT !.total = m.total + Len(bytes)]

\* Digest::finalize: the pending bytes are padded and compressed with the
\* total length; the digest is the chaining value, big-endian
HasherFinalize(m) ==
  LET last == CompressBlock(m.h, m.pending \o <<128, m.total % 256>>)
  IN  <<last \div 256, last % 256>>

\* format!("{:x}", digest): two lower-case hex digits per byte
HexDigit(n) == IF n < 10 THEN 48 + n ELSE 87 + n

RECURSIVE LowerHex(_)
LowerHex(bytes) ==
  IF bytes = << >> THEN << >>
  ELSE <<HexDigit(Head(bytes) \div 16), HexDigit(Head(bytes) % 16)>> \o LowerHex(Tail(bytes))

\* String::from_utf8 accepts exactly the well-formed UTF-8 byte sequences
IsContinuation(b) == b >= 128 /\ b <= 191

RECURSIVE IsUtf8(_)
IsUtf8(bytes) ==
  IF bytes = << >> THEN TRUE
  ELSE LET b == Head(bytes)
           n == Len(bytes)
       IN  CASE b < 128 -> IsUtf8(Tail(bytes))
             [] b >= 194 /\ b <= 223 ->
                  /\ n >= 2
                  /\ IsContinuation(bytes[2])
                  /\ IsUtf8(Drop(bytes, 2))
             [] b >= 224 /\ b <= 239 ->
                  /\ n >= 3
                  /\ IsContinuation(bytes[2])
                  /\ IsContinuation(bytes[3])
                  /\ (b = 224 => bytes[2] >= 160)
                  /\ (b = 237 => bytes[2] <= 159)
                  /\ IsUtf8(Drop(bytes, 3))
             [] b >= 240 /\ b <= 244 ->
                  /\ n >= 4
                  /\ IsContinuation(bytes[2])
                  /\ IsContinuation(bytes[3])
                  /\ IsContinuation(bytes[4])
                  /\ (b = 240 => bytes[2] >= 144)
                  /\ (b = 244 => bytes[2] <= 143)
                  /\ IsUtf8(Drop(bytes, 4))
             [] OTHER -> FALSE

\* Result<HashValue>
Ok(v) == [ok |-> TRUE, value |-> v, error |-> "none"]
Err(e) == [ok |-> FALSE, value |-> << >>, error |-> e]

\* the HashValue hash_from_reader returns once the read loop has ended
\* (source.rs:119, 138-140, 159)
HashValueOf(ht, m) ==
  LET digest == HasherFinalize(m)
  IN  CASE ht = "sha1"   -> Ok(LowerHex(digest))
        [] ht = "sha256" -> Ok(LowerHex(digest))
        [] ht = "sha512" ->
             IF IsUtf8(digest) THEN Ok(digest) ELSE Err("FromUtf8Error")

\* hashing a whole buffer in one shot
DigestOf(ht, data) == HasherFinalize(HasherUpdate(HasherNew(ht), data))

NoResult == [ok |-> FALSE, value |-> << >>, error |-> "pending"]

ZeroBuffer == [i \in 1..BufferLen |-> 0]

\* reader.read(&mut buffer) stores count bytes at the front of the buffer
ReadInto(buf, bytes) ==
  [i \in 1..BufferLen |-> IF i <= Len(bytes) THEN bytes[i] ELSE buf[i]]

\* mutant: the whole buffer is hashed, not the bytes just read
WholeBuffer(buf, count) == buf

\* the bytes handed to m.update: &buffer[..count]
UpdateSlice(buf, count) == Take(buf, count)

\* the declared values a package file may give for a source of this content:
\* the hex digest of the content, or that of another content
DeclaredFor(ht, c) == {LowerHex(DigestOf(ht, d)) : d \in {c, << >>, <<1>>}}

HashInit ==
  /\ hashtype \in HashTypes
  /\ content \in Contents
  /\ declared \in DeclaredFor(hashtype, content)
  /\ reader = content
  /\ buffer = ZeroBuffer
  /\ hasher = HasherNew(hashtype)
  /\ hpc = "loop"
  /\ hashed = NoResult
  /\ matched = NoResult

\* no matches_hash_of call is under way
HashIdle ==
  /\ hashtype = "sha1"
  /\ content = << >>
  /\ declared = << >>
  /\ reader = << >>
  /\ buffer = ZeroBuffer
  /\ hasher = HasherNew("sha1")
  /\ hpc = "idle"
  /\ hashed = NoResult
  /\ matched = NoResult

\* one turn of the read loop with count > 0 (source.rs:107-118)
ReadChunk ==
  /\ hpc = "loop"
  /\ reader # << >>
  /\ \E count \in 1..Min({BufferLen, Len(reader)}) :
       /\ buffer' = ReadInto(buffer, Take(reader, count))
       /\ reader' = Drop(reader, count)
       /\ hasher' = HasherUpdate(hasher, UpdateSlice(buffer', count))
  /\ UNCHANGED <<hashtype, declared, content, hpc, hashed, matched>>
  /\ UNCHANGED <<buildVars, orchVars, storeVars, logVars, dbVars>>

\* the read that returns count = 0 ends the loop; the digest is finalized
ReadEnd ==
  /\ hpc = "loop"
  /\ reader = << >>
  /\ hashed' = HashValueOf(hashtype, hasher)
  /\ hpc' = "hashed"
  /\ UNCHANGED <<hashtype, declared, content, reader, buffer, hasher, matched>>
  /\ UNCHANGED <<buildVars, orchVars, storeVars, logVars, dbVars>>

\* SourceHash::matches_hash_of after hash_from_reader returned (source.rs:58-71)
MatchResult(h, value) ==
  IF ~h.ok THEN Err("Hashing failed")
  ELSE IF h.value = value THEN Ok(<< >>)
  ELSE Err("Hash mismatch")

CompareHash ==
  /\ hpc = "hashed"
  /\ matched' = MatchResult(hashed, declared)
  /\ hpc' = "returned"
  /\ UNCHANGED <<hashtype, declared, content, reader, buffer, hasher, hashed>>
  /\ UNCHANGED <<buildVars, orchVars, storeVars, logVars, dbVars>>

HashNext == ReadChunk \/ ReadEnd \/ CompareHash

\* hash_from_reader on a reader that fills the buffer on every read
RECURSIVE HashFromReader(_, _, _)
HashFromReader(ht, m, rest) ==
  IF rest = << >> THEN HashValueOf(ht, m)
  ELSE LET count == Min({BufferLen, Len(rest)})
       IN  HashFromReader(ht, HasherUpdate(m, Take(rest, count)), Drop(rest, count))

\* matches_hash_of as a function of the source and the cached file
MatchesHashOf(ht, value, file) ==
  MatchResult(HashFromReader(ht, HasherNew(ht), file), value)

(***************************************************************************)
(* filestore/util.rs: FileStoreImpl.                                       *)
(*                                                                         *)
(* A path is the sequence of its components below "/".  A file system maps *)
(* the paths that exist to their nodes: a directory, a regular file or a   *)
(* symbolic link with an absolute target.                                  *)
(***************************************************************************)
\* number of symbolic links canonicalize follows before it gives up
MaxSymlinks == 2

Dir == [kind |-> "dir", target |-> << >>, loadable |-> FALSE]
File == [kind |-> "file", target |-> << >>, loadable |-> TRUE]
\* a regular file Artifact::load cannot make an Artifact of
OddFile == [kind |-> "file", target |-> << >>, loadable |-> FALSE]
Link(t) == [kind |-> "link", target |-> t, loadable |-> FALSE]

FsEmpty == (<<"r">> :> Dir) @@ (<<"o">> :> Dir) @@ (<<"o", "x">> :> File)

FsFlat == FsEmpty @@ (<<"r", "a">> :> File)

FsNested ==
  FsFlat @@ (<<"r", "d">> :> Dir) @@ (<<"r", "d", "b">> :> File)
         @@ (<<"r", "l">> :> Link(<<"o", "x">>))
         @@ (<<"r", "odd">> :> OddFile)
         @@ (<<"o", "k">> :> Link(<<"r", "a">>))
         @@ (<<"o", "a">> :> File)

FileSystems == {FsEmpty, FsFlat, FsNested}

\* the paths a store is constructed on: a directory, a regular file, nothing
StoreRoots == {<<"r">>, <<"o", "x">>, <<"n">>}

\* the files a container run may leave below the root
NewFiles == {<<"r", "b">>, <<"r", "d", "c">>}

\* the full paths load_from_path is called with
FullPaths ==
  { <<"r", "a">>, <<"r", "b">>, <<"r", "d", "b">>, <<"r", "d", "c">>,
    <<"r", "d", "..", "a">>, <<"r", "l">>, <<"r", "odd">>, <<"r", "d">>,
    <<"r", "missing">>, <<"o", "x">>, <<"o", "k">>, <<"o", "a">> }

Parent(p) == IF p = << >> THEN << >> ELSE Take(p, Len(p) - 1)

\* mutant: the canonical path is not compared with the root
StartsWithAnything(p, prefix) == TRUE

\* Path::starts_with
StartsWith(p, prefix) ==
  Len(prefix) <= Len(p) /\ Take(p, Len(prefix)) = prefix

PathOk(p) == [ok |-> TRUE, value |-> p, error |-> "none"]
PathErr(e) == [ok |-> FALSE, value |-> << >>, error |-> e]

\* Path::canonicalize: all links resolved, ".." removed; fails on a
\* component that does not exist
RECURSIVE Resolve(_, _, _, _)
Resolve(fs, at, rest, fuel) ==
  IF rest = << >> THEN PathOk(at)
  ELSE LET c == Head(rest)
           q == Append(at, c)
       IN  IF c = ".." THEN Resolve(fs, Parent(at), Tail(rest), fuel)
           ELSE IF q \notin DOMAIN fs THEN PathErr("NotFound")
           ELSE IF fs[q].kind = "link"
                THEN IF fuel = 0 THEN PathErr("TooManyLinks")
                     ELSE Resolve(fs, << >>, fs[q].target \o Tail(rest), fuel - 1)
           ELSE IF fs[q].kind = "file" /\ Tail(rest) # << >>
                THEN PathErr("NotADirectory")
           ELSE Resolve(fs, q, Tail(rest), fuel)

Canonicalize(fs, p) == Resolve(fs, << >>, p, MaxSymlinks)

\* Path::is_dir and Path::is_file follow links
IsDir(fs, p) ==
  LET c == Canonicalize(fs, p)
  IN  c.ok /\ (c.value = << >> \/ fs[c.value].kind = "dir")

IsFile(fs, p) ==
  LET c == Canonicalize(fs, p)
  IN  c.ok /\ c.value # << >> /\ fs[c.value].kind = "file"

\* StoreRoot::stripped_from: the ArtifactPath of a full path, relative to
\* the root; fails if the full path does not canonicalize under the root
StrippedFrom(fs, rt, p) ==
  LET c == Canonicalize(fs, p)
  IN  IF c.ok /\ StartsWith(c.value, rt) /\ c.value # rt
      THEN PathOk(Drop(c.value, Len(rt)))
      ELSE PathErr("StripPrefixError")

\* Artifact::load: the Artifact of a regular file below the root
ArtifactLoad(fs, rt, artPath) ==
  LET full == rt \o artPath
  IN  IF IsFile(fs, full) /\ fs[Canonicalize(fs, full).value].loadable
      THEN [ok |-> TRUE, value |-> [path |-> artPath], error |-> "none"]
      ELSE [ok |-> FALSE, value |-> [path |-> << >>], error |-> "LoadError"]

\* the entries directly in a directory
Children(fs, p) == {q \in DOMAIN fs : Len(q) = Len(p) + 1 /\ Take(q, Len(p)) = p}

\* the predicate handed to filter_entry (util.rs:38); without follow_links
\* the file type of an entry is that of the link, never of its target
EntryPredicate(fs, p) == fs[p].kind = "file"

\* WalkDir::new(path).follow_links(false).into_iter().filter_entry(pred):
\* an entry the predicate rejects is not yielded and, if it is a directory,
\* not descended into; the walk starts with the entry of path itself
RECURSIVE FilterEntry(_, _)
FilterEntry(fs, p) ==
  IF ~EntryPredicate(fs, p) THEN {}
  ELSE {p} \cup (IF fs[p].kind = "dir"
                 THEN UNION {FilterEntry(fs, q) : q \in Children(fs, p)}
                 ELSE {})

EmptyStore == [k \in {} |-> [path |-> << >>]]

NoReturn == [ok |-> FALSE, value |-> [path |-> << >>], error |-> "pending"]
Returned(a) == [ok |-> TRUE, value |-> a, error |-> "none"]
Failed(e) == [ok |-> FALSE, value |-> [path |-> << >>], error |-> e]

StoreInit ==
  /\ fsys \in FileSystems
  /\ root \in StoreRoots
  /\ store = EmptyStore
  /\ spc = "new"
  /\ ticks = 0
  /\ op = "none"
  /\ arg = << >>
  /\ ret = NoReturn

\* no store is under consideration
StoreIdle ==
  /\ fsys = FsEmpty
  /\ root = << >>
  /\ store = EmptyStore
  /\ spc = "idle"
  /\ ticks = 0
  /\ op = "none"
  /\ arg = << >>
  /\ ret = NoReturn

\* the closure run on every entry the walk yields (util.rs:40-44)
LoadEntry(fs, path, f) ==
  LET p == StrippedFrom(fs, path, f)
  IN  IF p.ok THEN ArtifactLoad(fs, path, p.value) ELSE Failed(p.error)

\* FileStoreImpl::load (util.rs:31-51)
Load ==
  /\ spc = "new"
  /\ op' = "load"
  /\ arg' = root
  /\ UNCHANGED <<fsys, root>>
  /\ UNCHANGED <<buildVars, orchVars, hashVars, logVars, dbVars>>
  /\ IF IsDir(fsys, root)
     THEN LET entries == FilterEntry(fsys, root)
              bad == {f \in entries : ~LoadEntry(fsys, root, f).ok}
          IN  IF bad = {}
              THEN /\ store' = [k \in {StrippedFrom(fsys, root, f).value : f \in entries}
                                  |-> [path |-> k]]
                   /\ ticks' = ticks + Cardinality(entries)
                   /\ spc' = "loaded"
                   /\ ret' = Returned([path |-> << >>])
              ELSE \* the walk ends at the first entry that fails
                   /\ \E n \in 1..Cardinality(entries) : ticks' = ticks + n
                   /\ spc' = "failed"
                   /\ ret' = Failed("LoadError")
                   /\ UNCHANGED store
     ELSE /\ spc' = "failed"
          /\ ret' = Failed("File store cannot be loaded from non-directory")
          /\ UNCHANGED <<store, ticks>>

\* FileStoreImpl::is_sub_path (util.rs:78-82)
IsSubPath(fs, rt, p) ==
  LET c == Canonicalize(fs, p)
  IN  IF c.ok THEN [ok |-> TRUE, value |-> StartsWith(c.value, rt), error |-> "none"]
      ELSE [ok |-> FALSE, value |-> FALSE, error |-> c.error]

\* mutant: the store is not asked whether it holds the path
EntryNeverExists(st, k) == FALSE

\* self.store.get(&art_path).is_some() (util.rs:70)
EntryExists(st, k) == k \in DOMAIN st

\* mutant: the store is replaced by one that holds the new entry alone
InsertAlone(st, k, v) == (k :> v)

\* self.store.entry(k).or_insert(v) (util.rs:73)
OrInsert(st, k, v) == IF k \in DOMAIN st THEN st ELSE st @@ (k :> v)

\* FileStoreImpl::load_from_path (util.rs:65-76): the result and the store
LoadFromPathResult(fs, rt, st, pb) ==
  LET sub == IsSubPath(fs, rt, pb)
      artPath == StrippedFrom(fs, rt, pb)
      loaded == ArtifactLoad(fs, rt, artPath.value)
  IN  IF ~sub.ok THEN [ret |-> Failed(sub.error), store |-> st]
      ELSE IF ~sub.value THEN [ret |-> Failed("Not a sub-path"), store |-> st]
      ELSE IF ~artPath.ok THEN [ret |-> Failed(artPath.error), store |-> st]
      ELSE IF EntryExists(st, artPath.value) THEN [ret |-> Failed("Entry exists"), store |-> st]
      ELSE IF ~loaded.ok THEN [ret |-> Failed(loaded.error), store |-> st]
      ELSE LET st2 == OrInsert(st, artPath.value, loaded.value)
           IN  [ret |-> Returned(st2[artPath.value]), store |-> st2]

LoadFromPath ==
  /\ spc = "loaded"
  /\ \E pb \in FullPaths :
       LET r == LoadFromPathResult(fsys, root, store, pb)
       IN  /\ op' = "load_from_path"
           /\ arg' = pb
           /\ ret' = r.ret
           /\ store' = r.store
  /\ UNCHANGED <<fsys, root, spc, ticks>>
  /\ UNCHANGED <<buildVars, orchVars, hashVars, logVars, dbVars>>

\* a container run leaves a new regular file below the root
WriteFile ==
  /\ spc = "loaded"
  /\ \E q \in NewFiles :
       /\ q \notin DOMAIN fsys
       /\ Parent(q) \in DOMAIN fsys
       /\ fsys[Parent(q)].kind = "dir"
       /\ fsys' = fsys @@ (q :> File)
       /\ arg' = q
  /\ op' = "write"
  /\ ret' = NoReturn
  /\ UNCHANGED <<root, store, spc, ticks>>
  /\ UNCHANGED <<buildVars, orchVars, hashVars, logVars, dbVars>>

StoreNext == Load \/ LoadFromPath \/ WriteFile

(***************************************************************************)
(* The repositories build() is run on.  A repository gives, per package,   *)
(* its dependencies, its sources (each with the file the source cache      *)
(* holds for it) and its optional allowed_images and denied_images lists.  *)
(***************************************************************************)
Images == {"img-x", "img-y"}

\* config.docker().images()
ConfiguredImages == {"img-x"}

NoList == [some |-> FALSE, images |-> {}]
List(imgs) == [some |-> TRUE, images |-> imgs]

Source(ht, of, file) ==
  [hashtype |-> ht, value |-> LowerHex(DigestOf(ht, of)), file |-> file]

Plain(deps) ==
  [deps    |-> deps,
   sources |-> [p \in DOMAIN deps |-> {}],
   allowed |-> [p \in DOMAIN deps |-> NoList],
   denied  |-> [p \in DOMAIN deps |-> NoList]]

\* every source matches its declared sha1 or sha256 hash
RepoSingle ==
  [Plain(DepsSingle) EXCEPT !.sources["A"] = {Source("sha1", <<0, 1>>, <<0, 1>>)}]
RepoFork == Plain(DepsFork)
RepoWide == Plain(DepsWide)
RepoDiamond ==
  [Plain(DepsDiamond) EXCEPT
     !.sources["D"] = {Source("sha256", <<1>>, <<1>>)},
     !.sources["A"] = {Source("sha1", << >>, << >>), Source("sha256", <<0, 0, 0, 1>>, <<0, 0, 0, 1>>)}]
RepoSkew == Plain(DepsSkew)
\* the tree cannot be built
RepoCycle == Plain(DepsCycle)
RepoUnresolved == Plain(DepsUnresolved)
\* the cached file of a source of D is not the file its hash was declared for
RepoMismatch ==
  [Plain(DepsDiamond) EXCEPT !.sources["D"] = {Source("sha256", <<0, 1>>, <<1, 1>>)}]
\* a source of B declares the sha512 hash of its cached file
RepoSha512 ==
  [Plain(DepsFork) EXCEPT !.sources["B"] = {Source("sha512", <<0, 1>>, <<0, 1>>)}]
\* image policies
RepoRootAllowsY == [Plain(DepsSingle) EXCEPT !.allowed["A"] = List({"img-y"})]
RepoDepDeniesX == [Plain(DepsFork) EXCEPT !.denied["B"] = List({"img-x"})]
RepoAllowsX ==
  [Plain(DepsFork) EXCEPT !.allowed["B"] = List({"img-x"}), !.denied["C"] = List({"img-y"})]

Repositories ==
  { RepoSingle, RepoFork, RepoWide, RepoDiamond, RepoSkew, RepoCycle, RepoUnresolved,
    RepoMismatch, RepoSha512, RepoRootAllowsY, RepoDepDeniesX, RepoAllowsX }

\* commands::source::verify_impl: every source of every package must match
VerifyImpl(pkgs, r) ==
  \A p \in pkgs : \A src \in r.sources[p] :
    MatchesHashOf(src.hashtype, src.value, src.file).ok

\* mutant: the denied_images list is not looked at
AllowlistOnly(r, p, img) == r.allowed[p].some => img \in r.allowed[p].images

\* the allow/deny check of one package (build.rs:214-227)
PolicyOk(r, p, img) ==
  /\ r.allowed[p].some => img \in r.allowed[p].images
  /\ r.denied[p].some => img \notin r.denied[p].images

(***************************************************************************)
(* commands/build.rs: build().  Each step of the function is an action; a  *)
(* step that fails makes build() return its error.                         *)
(***************************************************************************)
NoJobs == [j \in {} |-> 0]

BuildInit ==
  /\ pc = "image"
  /\ outcome = "running"
  /\ abortedAt = "none"
  /\ repo \in Repositories
  /\ image \in Images
  /\ noVerification \in BOOLEAN
  /\ tree = EmptyTree
  /\ jobsets = << >>
  /\ journal = {}
  /\ found = -1
  /\ storesLoaded = {}
  /\ output = << >>
  /\ hadError = FALSE

OrchIdle ==
  /\ capacity = [e \in Endpoints |-> 0]
  /\ permits = [e \in Endpoints |-> 0]
  /\ cur = 0
  /\ queue = {}
  /\ jstate = NoJobs
  /\ onEndpoint = NoJobs
  /\ started = NoJobs
  /\ registered = NoJobs
  /\ staging = {}
  /\ errors = NoJobs

BuildIdle ==
  /\ pc = "idle"
  /\ outcome = "running"
  /\ abortedAt = "none"
  /\ repo = RepoSingle
  /\ image = "img-x"
  /\ noVerification = FALSE
  /\ tree = EmptyTree
  /\ jobsets = << >>
  /\ journal = {}
  /\ found = -1
  /\ storesLoaded = {}
  /\ output = << >>
  /\ hadError = FALSE

\* build() returns the error of the step it is at
Abort ==
  /\ abortedAt' = pc
  /\ outcome' = "err"
  /\ pc' = "done"

\* build() goes on with the next step
Goto(step) ==
  /\ pc' = step
  /\ UNCHANGED <<outcome, abortedAt>>

\* build.rs:69-77: the image must be a configured one, if that is verified
CheckImage ==
  /\ pc = "image"
  /\ \E verifyImagesPresent \in BOOLEAN :
       IF verifyImagesPresent /\ image \notin ConfiguredImages
       THEN Abort ELSE Goto("head")
  /\ UNCHANGED <<found, storesLoaded, output, hadError>>
  /\ UNCHANGED <<repo, image, noVerification, tree, jobsets, journal>>
  /\ UNCHANGED <<orchVars, hashVars, storeVars, logVars, dbVars>>

\* build.rs:79-117: the HEAD commit of the repository is read and the
\* env arguments are parsed; either may fail
ReadArguments ==
  /\ pc = "head"
  /\ \E ok \in BOOLEAN : IF ok THEN Goto("find") ELSE Abort
  /\ UNCHANGED <<found, storesLoaded, output, hadError>>
  /\ UNCHANGED <<repo, image, noVerification, tree, jobsets, journal>>
  /\ UNCHANGED <<orchVars, hashVars, storeVars, logVars, dbVars>>

\* largest number of packages a repository lookup yields
MaxFound == 2

\* the versions of the package the repository may hold
PackageVersions == 1..MaxFound

\* build.rs:119-123: repo.find(&pname, &pvers) if a version is given,
\* repo.find_by_name(&pname) if none is (pvers = 0)
Lookup(versions, pvers) ==
  IF pvers # 0 THEN {v \in versions : v = pvers} ELSE versions

\* mutant: the first of several packages is built
AtLeastOne(n) == n >= 1

\* build.rs:128-131: more than one package is an error, and so is none
ExactlyOne(n) == ~(n > 1) /\ n # 0

\* build.rs:119-131: exactly one package must be found
FindPackage ==
  /\ pc = "find"
  /\ \E versions \in SUBSET PackageVersions, pvers \in {0} \cup PackageVersions :
       /\ found' = Cardinality(Lookup(versions, pvers))
       /\ IF ExactlyOne(found') THEN Goto("releases") ELSE Abort
  /\ UNCHANGED <<storesLoaded, output, hadError>>
  /\ UNCHANGED <<repo, image, noVerification, tree, jobsets, journal>>
  /\ UNCHANGED <<orchVars, hashVars, storeVars, logVars, dbVars>>

\* build.rs:133-146: the release store is loaded
LoadReleases ==
  /\ pc = "releases"
  /\ \E ok \in BOOLEAN :
       IF ok THEN Goto("staging") /\ storesLoaded' = storesLoaded \cup {"release"}
       ELSE Abort /\ UNCHANGED storesLoaded
  /\ UNCHANGED <<found, output, hadError>>
  /\ UNCHANGED <<repo, image, noVerification, tree, jobsets, journal>>
  /\ UNCHANGED <<orchVars, hashVars, storeVars, logVars, dbVars>>

\* build.rs:148-173: the staging directory is made and its store is loaded
LoadStaging ==
  /\ pc = "staging"
  /\ \E ok \in BOOLEAN :
       IF ok THEN Goto("tree") /\ storesLoaded' = storesLoaded \cup {"staging"}
       ELSE Abort /\ UNCHANGED storesLoaded
  /\ UNCHANGED <<found, output, hadError>>
  /\ UNCHANGED <<repo, image, noVerification, tree, jobsets, journal>>
  /\ UNCHANGED <<orchVars, hashVars, storeVars, logVars, dbVars>>

\* mutant: the error of add_package is dropped
TreeErrorDropped(deps) == FALSE

\* build.rs:180: tree.add_package(...)? returns the error of the expansion
TreeFailed(deps) == ~TreeBuilds(deps)

\* build.rs:175-184: the dependency tree of the package is built
BuildTree ==
  /\ pc = "tree"
  /\ IF ~TreeFailed(repo.deps)
     THEN /\ tree' = AddPackage(repo.deps)
          /\ Goto("verify")
     ELSE /\ Abort
          /\ UNCHANGED tree
  /\ UNCHANGED <<found, storesLoaded, output, hadError>>
  /\ UNCHANGED <<repo, image, noVerification, jobsets, journal>>
  /\ UNCHANGED <<orchVars, hashVars, storeVars, logVars, dbVars>>

\* mutant: the result of the verification is not looked at
SourcesNeverChecked(skip, pkgs, r) == TRUE

\* build.rs:186-193: the sources are verified unless no_verification is given
SourcesAccepted(skip, pkgs, r) == IF skip THEN TRUE ELSE VerifyImpl(pkgs, r)

\* mutant: only the package the build was called for is verified
OnlyRootVerified(t) == DOMAIN t \cap {RootPackage}

\* build.rs:191: tree.all_packages(), the packages handed to verify_impl
VerifiedPackages(t) == DOMAIN t

VerifySources ==
  /\ pc = "verify"
  /\ IF SourcesAccepted(noVerification, VerifiedPackages(tree), repo)
     THEN Goto("lint") ELSE Abort
  /\ UNCHANGED <<found, storesLoaded, output, hadError>>
  /\ UNCHANGED <<repo, image, noVerification, tree, jobsets, journal>>
  /\ UNCHANGED <<orchVars, hashVars, storeVars, logVars, dbVars>>

\* build.rs:195-210: the package scripts are linted unless no_lint is given
\* or no linter is configured; finding the linter and linting may fail
LintScripts ==
  /\ pc = "lint"
  /\ \E ok \in BOOLEAN : IF ok THEN Goto("policy") ELSE Abort
  /\ UNCHANGED <<found, storesLoaded, output, hadError>>
  /\ UNCHANGED <<repo, image, noVerification, tree, jobsets, journal>>
  /\ UNCHANGED <<orchVars, hashVars, storeVars, logVars, dbVars>>

\* build.rs:212-229: every package of the tree must allow the image
CheckPolicy ==
  /\ pc = "policy"
  /\ IF \A p \in DOMAIN tree : PolicyOk(repo, p, image)
     THEN Goto("database") ELSE Abort
  /\ UNCHANGED <<found, storesLoaded, output, hadError>>
  /\ UNCHANGED <<repo, image, noVerification, tree, jobsets, journal>>
  /\ UNCHANGED <<orchVars, hashVars, storeVars, logVars, dbVars>>

\* the env arguments of the call (additional_env)
AdditionalEnv == {<<"KEY", "value">>}

\* the rows create_or_fetch leaves for Package, GitHash, Image and EnvVar
DimensionRows(img) ==
  {<<"package", RootPackage>>, <<"githash">>, <<"image", img>>}
    \cup {<<"envvar", kv[1], kv[2]>> : kv \in AdditionalEnv}

\* build.rs:231-256: the database jobs run under join!, each to its end;
\* build() returns an error if one of them failed
CreateDimensions ==
  /\ pc = "database"
  /\ \E failing \in SUBSET DimensionRows(image) :
       /\ journal' = journal \cup (DimensionRows(image) \ failing)
       /\ IF failing = {} THEN Goto("submit") ELSE Abort
  /\ UNCHANGED <<found, storesLoaded, output, hadError>>
  /\ UNCHANGED <<repo, image, noVerification, tree, jobsets>>
  /\ UNCHANGED <<orchVars, hashVars, storeVars, logVars, dbVars>>

\* build.rs:258-267: Submit::create
CreateSubmit ==
  /\ pc = "submit"
  /\ \E ok \in BOOLEAN :
       IF ok THEN /\ journal' = journal \cup {<<"submit">>}
                  /\ Goto("jobsets")
       ELSE /\ Abort
            /\ UNCHANGED journal
  /\ UNCHANGED <<found, storesLoaded, output, hadError>>
  /\ UNCHANGED <<repo, image, noVerification, tree, jobsets>>
  /\ UNCHANGED <<orchVars, hashVars, storeVars, logVars, dbVars>>

\* build.rs:269-272: JobSet::sets_from_tree
MakeJobSets ==
  /\ pc = "jobsets"
  /\ \E ok \in BOOLEAN :
       IF ok THEN /\ jobsets' = SetsFromTree(tree)
                  /\ Goto("setup")
       ELSE /\ Abort
            /\ UNCHANGED jobsets
  /\ UNCHANGED <<found, storesLoaded, output, hadError>>
  /\ UNCHANGED <<repo, image, noVerification, tree, journal>>
  /\ UNCHANGED <<orchVars, hashVars, storeVars, logVars, dbVars>>

(***************************************************************************)
(* The orchestrator: OrchestratorSetup::setup and Orchestrator::run.       *)
(* A job is named by the package of its tree node.  Its states are         *)
(*   "pending"    not scheduled                                            *)
(*   "running"    dispatched to an endpoint, its container runs            *)
(*   "ok", "err"  the container has ended in that terminal state           *)
(*   "recorded"   the job row of the successful job is written             *)
(*   "succeeded", "failed", "skipped"   terminated                         *)
(***************************************************************************)
Jobs == DOMAIN tree

Terminated == {"succeeded", "failed", "skipped"}

\* the states in which a job holds a permit of its endpoint
OnEndpoint == {"running", "ok", "err", "recorded"}

BuildUnchanged ==
  UNCHANGED <<repo, image, noVerification, tree, jobsets, found, storesLoaded, output, hadError>>

\* build.rs:274-289: the endpoints are validated; setup fails if one of
\* them rejects, e.g. because it does not report the image as present
SetupOrchestrator ==
  /\ pc = "setup"
  /\ \E accepts \in [Endpoints -> BOOLEAN], caps \in [Endpoints -> 1..MaxCapacity] :
       IF \A e \in Endpoints : accepts[e]
       THEN /\ Goto("run")
            /\ capacity' = caps
            /\ permits' = caps
            /\ cur' = 0
            /\ queue' = {}
            /\ jstate' = [j \in Jobs |-> "pending"]
            /\ onEndpoint' = [j \in Jobs |-> "none"]
            /\ started' = [j \in Jobs |-> 0]
            /\ registered' = [j \in Jobs |-> 0]
            /\ errors' = [j \in Jobs |-> 0]
            /\ UNCHANGED staging
       ELSE /\ Abort
            /\ UNCHANGED orchVars
  /\ BuildUnchanged
  /\ UNCHANGED <<journal, hashVars, storeVars, logVars, dbVars>>

\* mutant: a job is ready whatever became of its dependencies
DependenciesIgnored(t, js, j) == TRUE

\* every dependency of the job has completed with success
DependenciesSucceeded(t, js, j) == \A d \in t[j] : js[d] = "succeeded"

\* mutant: the next set begins without waiting for the current one
SetNotAwaited(sets, js, n) == TRUE

\* every job of the set has terminated (there is no set 0)
SetTerminated(sets, js, n) ==
  IF n = 0 THEN TRUE ELSE \A j \in sets[n] : js[j] \in Terminated

\* the next set begins: its ready queue is built from the jobs whose
\* dependencies have all succeeded; the other jobs of the set are skipped
BeginSet ==
  /\ pc = "run"
  /\ cur < Len(jobsets)
  /\ SetTerminated(jobsets, jstate, cur)
  /\ LET ready == {j \in jobsets[cur + 1] : DependenciesSucceeded(tree, jstate, j)}
     IN  /\ queue' = queue \cup ready
         /\ jstate' = [j \in Jobs |->
                         IF j \in jobsets[cur + 1] \ ready THEN "skipped" ELSE jstate[j]]
  /\ cur' = cur + 1
  /\ UNCHANGED <<capacity, permits, onEndpoint, started, registered, staging, errors>>
  /\ UNCHANGED <<pc, outcome, abortedAt, journal>>
  /\ BuildUnchanged
  /\ UNCHANGED <<hashVars, storeVars, logVars, dbVars>>

\* mutant: the dispatcher does not look at the permits
EveryEndpoint(free) == Endpoints

\* the endpoints that have a free permit
EligibleEndpoints(free) == {e \in Endpoints : free[e] > 0}

\* among the eligible endpoints the least loaded, the first configured of those
SelectEndpoint(caps, free) ==
  LET eligible == EligibleEndpoints(free)
      least == Min({caps[e] - free[e] : e \in eligible})
      first == Min({EndpointIndex(e) : e \in {x \in eligible : caps[x] - free[x] = least}})
  IN  ConfiguredEndpoints[first]

\* the dispatcher pulls a ready job and starts it on the selected endpoint
Dispatch ==
  /\ pc = "run"
  /\ EligibleEndpoints(permits) # {}
  /\ \E j \in queue :
       LET e == SelectEndpoint(capacity, permits)
       IN  /\ queue' = queue \ {j}
           /\ jstate' = [jstate EXCEPT ![j] = "running"]
           /\ onEndpoint' = [onEndpoint EXCEPT ![j] = e]
           /\ permits' = [permits EXCEPT ![e] = @ - 1]
           /\ started' = [started EXCEPT ![j] = @ + 1]
  /\ UNCHANGED <<capacity, cur, registered, staging, errors>>
  /\ UNCHANGED <<pc, outcome, abortedAt, journal>>
  /\ BuildUnchanged
  /\ UNCHANGED <<hashVars, storeVars, logVars, dbVars>>

\* the container of a running job ends with the terminal state ok
ContainerOk ==
  /\ pc = "run"
  /\ \E j \in Jobs :
       /\ jstate[j] = "running"
       /\ jstate' = [jstate EXCEPT ![j] = "ok"]
  /\ UNCHANGED <<capacity, permits, cur, queue, onEndpoint, started, registered, staging, errors>>
  /\ UNCHANGED <<pc, outcome, abortedAt, journal>>
  /\ BuildUnchanged
  /\ UNCHANGED <<hashVars, storeVars, logVars, dbVars>>

\* the container of a running job ends with the terminal state err, or
\* with a non-zero exit
ContainerErr ==
  /\ pc = "run"
  /\ \E j \in Jobs :
       /\ jstate[j] = "running"
       /\ jstate' = [jstate EXCEPT ![j] = "err"]
  /\ UNCHANGED <<capacity, permits, cur, queue, onEndpoint, started, registered, staging, errors>>
  /\ UNCHANGED <<pc, outcome, abortedAt, journal>>
  /\ BuildUnchanged
  /\ UNCHANGED <<hashVars, storeVars, logVars, dbVars>>

\* (a) the job row of a successful job is recorded with its log
RecordJob ==
  /\ pc = "run"
  /\ \E j \in Jobs :
       /\ jstate[j] = "ok"
       /\ jstate' = [jstate EXCEPT ![j] = "recorded"]
       /\ journal' = journal \cup {<<"job", j>>}
  /\ UNCHANGED <<capacity, permits, cur, queue, onEndpoint, started, registered, staging, errors>>
  /\ UNCHANGED <<pc, outcome, abortedAt>>
  /\ BuildUnchanged
  /\ UNCHANGED <<hashVars, storeVars, logVars, dbVars>>

\* the artifacts of a job: the files of its output directory
ArtifactsOf(j) == {<<j, n>> : n \in 1..ArtifactsPerJob}

\* (b) the next produced artifact is registered in the staging store and
\* in the journal
RegisterArtifact ==
  /\ pc = "run"
  /\ \E j \in Jobs :
       /\ jstate[j] = "recorded"
       /\ registered[j] < ArtifactsPerJob
       /\ registered' = [registered EXCEPT ![j] = @ + 1]
       /\ staging' = staging \cup {<<j, registered[j] + 1>>}
       /\ journal' = journal \cup {<<"artifact", j, registered[j] + 1>>}
  /\ UNCHANGED <<capacity, permits, cur, queue, jstate, onEndpoint, started, errors>>
  /\ UNCHANGED <<pc, outcome, abortedAt>>
  /\ BuildUnchanged
  /\ UNCHANGED <<hashVars, storeVars, logVars, dbVars>>

\* mutant: success is declared before the artifacts are registered
RegistrationNotAwaited(reg, j) == TRUE

\* every produced artifact of the job is registered
AllRegistered(reg, j) == reg[j] = ArtifactsPerJob

\* (c) the job has succeeded: its descendants become eligible and its
\* endpoint gets the permit back
CompleteJob ==
  /\ pc = "run"
  /\ \E j \in Jobs :
       /\ jstate[j] = "recorded"
       /\ AllRegistered(registered, j)
       /\ jstate' = [jstate EXCEPT ![j] = "succeeded"]
       /\ permits' = [permits EXCEPT ![onEndpoint[j]] = @ + 1]
  /\ UNCHANGED <<capacity, cur, queue, onEndpoint, started, registered, staging, errors>>
  /\ UNCHANGED <<pc, outcome, abortedAt, journal>>
  /\ BuildUnchanged
  /\ UNCHANGED <<hashVars, storeVars, logVars, dbVars>>

\* mutant: the error of a failed job is dropped
WithoutError(errs, j) == errs

\* the error pairs after job j has failed
WithError(errs, j) == [errs EXCEPT ![j] = @ + 1]

\* a failure records the job row with its log and marks the job as failed
FailJob ==
  /\ pc = "run"
  /\ \E j \in Jobs :
       /\ jstate[j] = "err"
       /\ jstate' = [jstate EXCEPT ![j] = "failed"]
       /\ journal' = journal \cup {<<"job", j>>}
       /\ errors' = WithError(errors, j)
       /\ permits' = [permits EXCEPT ![onEndpoint[j]] = @ + 1]
  /\ UNCHANGED <<capacity, cur, queue, onEndpoint, started, registered, staging>>
  /\ UNCHANGED <<pc, outcome, abortedAt>>
  /\ BuildUnchanged
  /\ UNCHANGED <<hashVars, storeVars, logVars, dbVars>>

\* run returns the error pairs after the last set (build.rs:293)
RunReturns ==
  /\ pc = "run"
  /\ cur = Len(jobsets)
  /\ SetTerminated(jobsets, jstate, cur)
  /\ Goto("report")
  /\ UNCHANGED <<orchVars, journal, hashVars, storeVars, logVars, dbVars>>
  /\ BuildUnchanged

\* run itself fails (a journal or store error): build() returns its error
RunFails ==
  /\ pc = "run"
  /\ Abort
  /\ UNCHANGED <<orchVars, journal, hashVars, storeVars, logVars, dbVars>>
  /\ BuildUnchanged

\* the job UUIDs run has paired with an error
FailedJobs == {j \in DOMAIN errors : errors[j] > 0}

\* an entry of what build() writes: the list of the created packages, or
\* the report of the error of one job
ArtifactsEntry(artifacts) == [kind |-> "artifacts", items |-> artifacts]
ErrorEntry(j) == [kind |-> "error", items |-> {j}]

\* the jobs whose error has been reported
Reported(out) == {j \in DOMAIN errors : \E i \in DOMAIN out : out[i] = ErrorEntry(j)}

\* build.rs:297-302: the artifacts of the run are listed under "Packages
\* created:", if there are any (stdout is taken to be writable)
ListArtifacts ==
  /\ pc = "report"
  /\ Goto("errors")
  /\ output' = IF staging # {} THEN Append(output, ArtifactsEntry(staging)) ELSE output
  /\ UNCHANGED <<repo, image, noVerification, tree, jobsets, found, storesLoaded, hadError>>
  /\ UNCHANGED <<orchVars, journal, hashVars, storeVars, logVars, dbVars>>

\* build.rs:304-365: one pass of the loop over the error pairs: had_error
\* is set and the cause chain is printed; then the job row is fetched and
\* its log parsed and printed, and build() returns the error if either fails
ReportError ==
  /\ pc = "errors"
  /\ \E j \in FailedJobs \ Reported(output) :
       /\ hadError' = TRUE
       /\ output' = Append(output, ErrorEntry(j))
       /\ \E ok \in BOOLEAN :
            IF ok THEN UNCHANGED <<pc, outcome, abortedAt>> ELSE Abort
  /\ UNCHANGED <<repo, image, noVerification, tree, jobsets, found, storesLoaded>>
  /\ UNCHANGED <<orchVars, journal, hashVars, storeVars, logVars, dbVars>>

\* mutant: the errors are printed, and build() returns Ok all the same
ResultOk(had) == "ok"

\* build.rs:367-371: an error if had_error, Ok(()) if not
Result(had) == IF had THEN "err" ELSE "ok"

\* build.rs:367-371: after the last error pair build() returns
ReturnResult ==
  /\ pc = "errors"
  /\ FailedJobs \subseteq Reported(output)
  /\ pc' = "done"
  /\ outcome' = Result(hadError)
  /\ UNCHANGED abortedAt
  /\ UNCHANGED <<orchVars, journal, hashVars, storeVars, logVars, dbVars>>
  /\ BuildUnchanged

BuildNext ==
  \/ CheckImage \/ ReadArguments \/ FindPackage \/ LoadReleases \/ LoadStaging
  \/ BuildTree \/ VerifySources \/ LintScripts \/ CheckPolicy
  \/ CreateDimensions \/ CreateSubmit \/ MakeJobSets \/ SetupOrchestrator
  \/ BeginSet \/ Dispatch \/ ContainerOk \/ ContainerErr
  \/ RecordJob \/ RegisterArtifact \/ CompleteJob \/ FailJob
  \/ RunReturns \/ RunFails \/ ListArtifacts \/ ReportError \/ ReturnResult

(***************************************************************************)
(* The parsed log.  A line of a log is a sequence of symbols: the marker   *)
(* words of the in-band protocol and single characters.  log_text is a     *)
(* String, so a line of a stored log never holds a byte that is not UTF-8. *)
(***************************************************************************)
\* longest stored log, in lines
MaxLogLen == 3
\* largest configured build_error_lines
MaxErrorLines == 3

Digits == <<"0", "1", "2", "3", "4", "5", "6", "7", "8", "9">>

IsDigit(c) == \E i \in DOMAIN Digits : Digits[i] = c

DigitValue(c) == (CHOOSE i \in DOMAIN Digits : Digits[i] = c) - 1

Letters == {"a", "b"}

\* the characters of an identifier
IsIdentifierChar(c) == c \in Letters \/ IsDigit(c)

\* a byte that is no part of any UTF-8 text
NonUtf8 == "0xFF"

\* the value of a sequence of decimal digits
RECURSIVE ParseNumber(_)
ParseNumber(ds) ==
  IF ds = << >> THEN 0
  ELSE 10 * ParseNumber(Take(ds, Len(ds) - 1)) + DigitValue(ds[Len(ds)])

\* format!("{}", u) of an unsigned integer
RECURSIVE Decimal(_)
Decimal(n) ==
  IF n < 10 THEN <<Digits[n + 1]>>
  ELSE Append(Decimal(n \div 10), Digits[(n % 10) + 1])

\* LogItem
Line(bytes) == [kind |-> "Line", text |-> bytes, u |-> 0]
Progress(n) == [kind |-> "Progress", text |-> << >>, u |-> n]
CurrentPhase(p) == [kind |-> "CurrentPhase", text |-> p, u |-> 0]
StateOk == [kind |-> "StateOk", text |-> << >>, u |-> 0]
StateErr(m) == [kind |-> "StateErr", text |-> m, u |-> 0]

IsState(item) == item.kind \in {"StateOk", "StateErr"}

\* the parser of one line: a control line is exactly a line of one of the
\* four marker forms, any other line is kept verbatim as a Line
ParseLine(l) ==
  LET rest == Drop(l, 2)
  IN  IF Len(l) < 2 \/ l[1] # "#BUTIDO:" THEN Line(l)
      ELSE IF l[2] = "PROGRESS:" /\ rest # << >>
                /\ \A i \in DOMAIN rest : IsDigit(rest[i])
           THEN Progress(ParseNumber(rest))
      ELSE IF l[2] = "PHASE:" /\ rest # << >>
                /\ \A i \in DOMAIN rest : IsIdentifierChar(rest[i])
           THEN CurrentPhase(rest)
      ELSE IF l[2] = "STATE:" /\ rest = <<"OK">> THEN StateOk
      ELSE IF l[2] = "STATE:" /\ rest # << >> /\ rest[1] = "ERR:"
           THEN StateErr(Tail(rest))
      ELSE Line(l)

\* ParsedLog::build_from: the items of the lines, in their order
BuildFrom(text) == [i \in DOMAIN text |-> ParseLine(text[i])]

\* ParsedLog::is_successfull: Some(true) on a terminal OK, Some(false) on a
\* terminal ERR, None if there is no terminal state
IsSuccessfull(parsed) ==
  LET states == {i \in DOMAIN parsed : IsState(parsed[i])}
  IN  IF states = {} THEN "None"
      ELSE IF parsed[Max(states)].kind = "StateOk" THEN "Some(true)"
      ELSE "Some(false)"

\* the lines a container may write
SampleLines ==
  { <<"a">>,
    <<"#BUTIDO:", "PROGRESS:", "0", "7">>,
    <<"#BUTIDO:", "PROGRESS:", "a">>,
    <<"#BUTIDO:", "PHASE:", "a">>,
    <<"#BUTIDO:", "PHASE:", "b", "2">>,
    <<"#BUTIDO:", "STATE:", "OK">>,
    <<"#BUTIDO:", "STATE:", "ERR:", "a", "7">>,
    <<"a", "#BUTIDO:", "STATE:", "OK">> }

\* the stored logs: whatever the script of the job has written
StoredLogs == SeqsUpTo(SampleLines, MaxLogLen)

\* String::from_utf8
FromUtf8(bytes) ==
  IF \E i \in DOMAIN bytes : bytes[i] = NonUtf8
  THEN Err("FromUtf8Error") ELSE Ok(bytes)

\* mutant: an item is rendered without its marker
RenderBare(item) ==
  IF item.kind = "Progress" THEN Ok(Decimal(item.u)) ELSE Ok(item.text)

\* the line form of an item (build.rs:324-338, db.rs:523-529)
RenderItem(item) ==
  CASE item.kind = "Line" -> FromUtf8(item.text)
    [] item.kind = "Progress" -> Ok(<<"#BUTIDO:", "PROGRESS:">> \o Decimal(item.u))
    [] item.kind = "CurrentPhase" -> Ok(<<"#BUTIDO:", "PHASE:">> \o item.text)
    [] item.kind = "StateOk" -> Ok(<<"#BUTIDO:", "STATE:", "OK">>)
    [] item.kind = "StateErr" -> Ok(<<"#BUTIDO:", "STATE:", "ERR:">> \o item.text)

NoPhase == [some |-> FALSE, name |-> << >>]
SomePhase(p) == [some |-> TRUE, name |-> p]

\* mutant: every phase marker is remembered, those after the error too
LastPhaseOverwritten(caught, last, p) == SomePhase(p)

\* build.rs:328-330: last_phase after a CurrentPhase(p) item
LastPhase(caught, last, p) == IF ~caught THEN SomePhase(p) ELSE last

\* what is written below the lines: the text, and the phase it names
Trailer(text, phase) == [text |-> text, phase |-> phase]
NoTrailer == Trailer("none", << >>)

LogInit ==
  /\ logText \in StoredLogs
  /\ errorLines \in 0..MaxErrorLines
  /\ parsedLog = << >>
  /\ lpc = "fetched"
  /\ lines = << >>
  /\ lastPhase = NoPhase
  /\ errorCatched = FALSE
  /\ printed = << >>
  /\ trailer = NoTrailer

\* no log is under consideration
LogIdle ==
  /\ logText = << >>
  /\ errorLines = 0
  /\ parsedLog = << >>
  /\ lpc = "idle"
  /\ lines = << >>
  /\ lastPhase = NoPhase
  /\ errorCatched = FALSE
  /\ printed = << >>
  /\ trailer = NoTrailer

\* build.rs:320: the log of the failed job is parsed
ParseLog ==
  /\ lpc = "fetched"
  /\ parsedLog' = BuildFrom(logText)
  /\ lpc' = "map"
  /\ UNCHANGED <<logText, errorLines, lines, lastPhase, errorCatched, printed, trailer>>
  /\ UNCHANGED <<buildVars, orchVars, hashVars, storeVars, dbVars>>

\* build.rs:323-339: the closure of the map, run on the next item
RenderNext ==
  /\ lpc = "map"
  /\ Len(lines) < Len(parsedLog)
  /\ LET item == parsedLog[Len(lines) + 1]
         line == RenderItem(item)
     IN  IF line.ok
         THEN /\ lines' = Append(lines, line.value)
              /\ lastPhase' = IF item.kind = "CurrentPhase"
                              THEN LastPhase(errorCatched, lastPhase, item.text)
                              ELSE lastPhase
              /\ errorCatched' = (errorCatched \/ item.kind = "StateErr")
              /\ UNCHANGED lpc
         ELSE /\ lpc' = "failed"
              /\ UNCHANGED <<lines, lastPhase, errorCatched>>
  /\ UNCHANGED <<logText, errorLines, parsedLog, printed, trailer>>
  /\ UNCHANGED <<buildVars, orchVars, hashVars, storeVars, dbVars>>

\* build.rs:341-354: the numbered lines that are written
PrintedLines(ls, numberLogLines) ==
  LET skip == IF Len(ls) > numberLogLines THEN Len(ls) - numberLogLines ELSE Len(ls)
  IN  [k \in 1..(Len(ls) - skip) |-> [index |-> skip + k - 1, line |-> ls[skip + k]]]

PrintLines ==
  /\ lpc = "map"
  /\ Len(lines) = Len(parsedLog)
  /\ printed' = PrintedLines(lines, errorLines)
  /\ lpc' = "printed"
  /\ UNCHANGED <<logText, errorLines, parsedLog, lines, lastPhase, errorCatched, trailer>>
  /\ UNCHANGED <<buildVars, orchVars, hashVars, storeVars, dbVars>>

\* build.rs:356-364: what is written below the lines
ReportPhase ==
  /\ lpc = "printed"
  /\ trailer' = IF errorCatched
                THEN IF lastPhase.some
                     THEN Trailer("Job errored in Phase", lastPhase.name)
                     ELSE Trailer("blank", << >>)
                ELSE Trailer("Error seems not to be caused by packaging script.", << >>)
  /\ lpc' = "done"
  /\ UNCHANGED <<logText, errorLines, parsedLog, lines, lastPhase, errorCatched, printed>>
  /\ UNCHANGED <<buildVars, orchVars, hashVars, storeVars, dbVars>>

\* db.rs:402, 520-532: "db job --show-log" parses the log and renders
\* every item
RECURSIVE RenderAll(_)
RenderAll(items) ==
  IF items = << >> THEN Ok(<< >>)
  ELSE LET front == RenderAll(Take(items, Len(items) - 1))
           last == RenderItem(items[Len(items)])
       IN  IF ~front.ok THEN front
           ELSE IF ~last.ok THEN last
           ELSE Ok(Append(front.value, last.value))

ShowLog ==
  /\ lpc = "fetched"
  /\ parsedLog' = BuildFrom(logText)
  /\ LET log == RenderAll(BuildFrom(logText))
     IN  IF log.ok THEN lines' = log.value /\ lpc' = "shown"
         ELSE lpc' = "failed" /\ UNCHANGED lines
  /\ UNCHANGED <<logText, errorLines, lastPhase, errorCatched, printed, trailer>>
  /\ UNCHANGED <<buildVars, orchVars, hashVars, storeVars, dbVars>>

LogNext == ParseLog \/ RenderNext \/ PrintLines \/ ReportPhase \/ ShowLog

(***************************************************************************)
(* commands/db.rs.  A database is a record of its tables, each table the   *)
(* set of its rows; the foreign keys of every row point at existing rows.  *)
(***************************************************************************)
PkgP1 == [id |-> 1, name |-> "p", version |-> "1"]
PkgP2 == [id |-> 2, name |-> "p", version |-> "2"]
PkgQ == [id |-> 3, name |-> "q", version |-> "1"]

\* the package names a filter may ask for
PackageNames == {"p", "q", "z"}

LogOk == << <<"#BUTIDO:", "PHASE:", "a">>, <<"a">>, <<"#BUTIDO:", "STATE:", "OK">> >>
LogErr == << <<"#BUTIDO:", "PHASE:", "a">>, <<"#BUTIDO:", "STATE:", "ERR:", "a", "7">> >>
LogOpen == << <<"a">>, <<"#BUTIDO:", "PROGRESS:", "0", "7">> >>

SubmitRow(i, pkg) == [id |-> i, package |-> pkg.id]
JobRow(i, s, pkg, log) == [id |-> i, submit |-> s, package |-> pkg.id, log |-> log]
JobEnvRow(j, nm, val) == [job |-> j, name |-> nm, value |-> val]
ArtifactRow(i, j, path) == [id |-> i, job |-> j, path |-> path]
ReleaseRow(i, a, st) == [id |-> i, artifact |-> a, store |-> st]
StoreRow(i, nm) == [id |-> i, name |-> nm]

DbEmpty ==
  [packages |-> {}, submits |-> {}, jobs |-> {}, jobEnvs |-> {},
   artifacts |-> {}, releases |-> {}, releaseStores |-> {}]

\* one submit for p, with a job for p and a job for its dependency q
DbOne ==
  [packages |-> {PkgP1, PkgQ},
   submits |-> {SubmitRow(1, PkgP1)},
   jobs |-> {JobRow(1, 1, PkgQ, LogOk), JobRow(2, 1, PkgP1, LogErr)},
   jobEnvs |-> {JobEnvRow(1, "KEY", "value"), JobEnvRow(2, "KEY", "value")},
   artifacts |-> {ArtifactRow(1, 1, <<"a">>)},
   releases |-> {ReleaseRow(1, 1, 1)},
   releaseStores |-> {StoreRow(1, "s1")}]

\* submit 1 for p 1 (jobs for p 1 and q), submit 2 for q (a job for q),
\* submit 3 for p 2 (jobs for p 2 and q), submit 4 for q (no job: the
\* build ended before its run), submit 5 for q (a job for q, none for p)
DbMany ==
  [packages |-> {PkgP1, PkgP2, PkgQ},
   submits |-> {SubmitRow(1, PkgP1), SubmitRow(2, PkgQ), SubmitRow(3, PkgP2),
                SubmitRow(4, PkgQ), SubmitRow(5, PkgQ)},
   jobs |-> {JobRow(1, 1, PkgQ, LogOk), JobRow(2, 1, PkgP1, LogOk),
             JobRow(3, 2, PkgQ, LogErr), JobRow(4, 3, PkgQ, LogOk),
             JobRow(5, 3, PkgP2, LogOpen), JobRow(6, 5, PkgQ, << >>)},
   jobEnvs |-> {JobEnvRow(3, "KEY", "value"), JobEnvRow(5, "KEY", "other")},
   artifacts |-> {ArtifactRow(1, 1, <<"a">>), ArtifactRow(2, 2, <<"c">>),
                  ArtifactRow(3, 4, <<"d", "b">>), ArtifactRow(4, 6, <<"e">>)},
   releases |-> {ReleaseRow(1, 1, 1), ReleaseRow(2, 2, 1), ReleaseRow(3, 3, 2),
                 ReleaseRow(4, 1, 2)},
   releaseStores |-> {StoreRow(1, "s1"), StoreRow(2, "s2")}]

\* a package of the tree of submit 1 was never built, p is only its root
DbRootOnly ==
  [DbOne EXCEPT !.jobs = {JobRow(1, 1, PkgQ, LogErr)},
                !.jobEnvs = {JobEnvRow(1, "KEY", "value")}]

Databases == {DbEmpty, DbOne, DbMany, DbRootOnly}

\* config.releases_directory()
ReleasesDirectory == <<"rel">>

RelBase ==
  (<<"rel">> :> Dir) @@ (<<"rel", "s1">> :> Dir) @@ (<<"rel", "s2">> :> Dir)

\* every released file is there
RelAll ==
  RelBase @@ (<<"rel", "s1", "a">> :> File) @@ (<<"rel", "s1", "c">> :> File)
    @@ (<<"rel", "s2", "a">> :> File) @@ (<<"rel", "s2", "d">> :> Dir)
    @@ (<<"rel", "s2", "d", "b">> :> File)
\* no released file is there
RelNone == RelBase
\* some are there
RelSome == RelBase @@ (<<"rel", "s1", "a">> :> File) @@ (<<"rel", "s2", "d">> :> Dir)
\* a directory where a released file should be
RelDirectory ==
  RelBase @@ (<<"rel", "s1", "a">> :> Dir) @@ (<<"rel", "s1", "c">> :> File)
\* a link to a regular file, and a link to nothing
RelLinks ==
  RelBase @@ (<<"rel", "s1", "a">> :> Link(<<"rel", "s1", "c">>))
    @@ (<<"rel", "s1", "c">> :> File)
    @@ (<<"rel", "s2", "a">> :> Link(<<"rel", "gone">>))
\* the releases directory itself is missing
RelMissing == (<<"tmp">> :> Dir)

ReleaseFileSystems == {RelAll, RelNone, RelSome, RelDirectory, RelLinks, RelMissing}

\* the arguments of a subcommand; "" and 0 stand for an absent argument
NoArgs == [with_pkg |-> "", for_pkg |-> "", submit_uuid |-> 0, filter_env |-> "",
           job_uuid |-> 0, csv |-> FALSE]

EmptyListing == [r \in {} |-> 0]

\* the rows of a Vec as row -> number of times the Vec holds it
Listing(counts) == [r \in {x \in DOMAIN counts : counts[x] > 0} |-> counts[r]]

DbInit ==
  /\ db \in Databases
  /\ relfs \in ReleaseFileSystems
  /\ cmd = "none"
  /\ cmdArg = NoArgs
  /\ listing = EmptyListing
  /\ warned = {}
  /\ dret = "none"

\* no database is under consideration
DbIdle ==
  /\ db = DbEmpty
  /\ relfs = RelNone
  /\ cmd = "idle"
  /\ cmdArg = NoArgs
  /\ listing = EmptyListing
  /\ warned = {}
  /\ dret = "none"

\* db.rs:245-251: submits_for, the submits joined with their package,
\* filtered by its name; one row per submit
SubmitsFor(d, pkgname) ==
  {<<s, pk>> \in d.submits \X d.packages : s.package = pk.id /\ pk.name = pkgname}

\* db.rs:255-259: the packages of that name joined with the jobs for them
\* and with the submits of these jobs; one row per job
SubmitsWithPkg(d, pkgname) ==
  {<<pk, j, s>> \in d.packages \X d.jobs \X d.submits :
     pk.name = pkgname /\ j.package = pk.id /\ j.submit = s.id}

\* db.rs:253-281: data
SubmitsData(d, args) ==
  LET ids == {s.id : s \in d.submits}
      with(i) == Cardinality({r \in SubmitsWithPkg(d, args.with_pkg) : r[3].id = i})
      for(i, pkgname) == Cardinality({r \in SubmitsFor(d, pkgname) : r[1].id = i})
  IN  IF args.with_pkg # ""
      THEN Listing([r \in {<<"submit", i>> : i \in ids} |->
                      with(r[2]) + for(r[2], args.with_pkg)])
      ELSE IF args.for_pkg # ""
      THEN Listing([r \in {<<"submit", i>> : i \in ids} |-> for(r[2], args.for_pkg)])
      ELSE Listing([r \in {<<"submit", i>> : i \in ids} |-> 1])

\* db.rs:230-290: db submits
Submits ==
  /\ cmd # "idle"
  /\ \E w \in PackageNames \cup {""}, f \in PackageNames \cup {""} :
       /\ cmdArg' = [NoArgs EXCEPT !.with_pkg = w, !.for_pkg = f]
       /\ listing' = SubmitsData(db, cmdArg')
  /\ cmd' = "submits"
  /\ warned' = {}
  /\ dret' = "ok"
  /\ UNCHANGED <<db, relfs>>
  /\ UNCHANGED <<buildVars, orchVars, hashVars, storeVars, logVars>>

\* mutant: a log without a terminal state counts as failed
SuccessTextTwoValued(success) == IF success = "Some(true)" THEN "yes" ELSE "no"

\* db.rs:348-350, 418-422, 468-472: the text shown for is_successfull()
SuccessText(success) ==
  CASE success = "Some(true)" -> "yes"
    [] success = "Some(false)" -> "no"
    [] success = "None" -> "unknown"

\* db.rs:306-341: the jobs joined with their submit and package, filtered
\* by the submit and by the environment variable, where given
SelectedJobs(d, args) ==
  LET jids == {je.job : je \in {e \in d.jobEnvs :
                                  e.name = "KEY" /\ e.value = args.filter_env}}
  IN  {j \in d.jobs :
         /\ \E s \in d.submits : s.id = j.submit
         /\ \E pk \in d.packages : pk.id = j.package
         /\ args.submit_uuid # 0 => j.submit = args.submit_uuid
         /\ args.filter_env # "" => j.id \in jids}

\* db.rs:292-372: db jobs
JobsCmd ==
  /\ cmd # "idle"
  /\ \E s \in {0, 1, 3}, e \in {"", "value"} :
       /\ cmdArg' = [NoArgs EXCEPT !.submit_uuid = s, !.filter_env = e]
       /\ listing' =
            LET sel == SelectedJobs(db, cmdArg')
                row(j) == <<"job", j.id, SuccessText(IsSuccessfull(BuildFrom(j.log)))>>
            IN  Listing([r \in {row(j) : j \in sel} |-> 1])
  /\ cmd' = "jobs"
  /\ warned' = {}
  /\ dret' = "ok"
  /\ UNCHANGED <<db, relfs>>
  /\ UNCHANGED <<buildVars, orchVars, hashVars, storeVars, logVars>>

\* db.rs:374-548: db job; first() fails if there is no job of that UUID
JobCmd ==
  /\ cmd # "idle"
  /\ \E u \in 1..7, csv \in BOOLEAN :
       /\ cmdArg' = [NoArgs EXCEPT !.job_uuid = u, !.csv = csv]
       /\ LET data == {j \in SelectedJobs(db, NoArgs) : j.id = u}
          IN  IF data = {}
              THEN /\ listing' = EmptyListing
                   /\ dret' = "err"
              ELSE /\ listing' =
                        Listing([r \in {<<"job", j.id, SuccessText(IsSuccessfull(BuildFrom(j.log)))>>
                                          : j \in data} |-> 1])
                   /\ dret' = "ok"
  /\ cmd' = "job"
  /\ warned' = {}
  /\ UNCHANGED <<db, relfs>>
  /\ UNCHANGED <<buildVars, orchVars, hashVars, storeVars, logVars>>

\* mutant: the file of a release is not looked for
ReleaseAssumedPresent(fs, p) == TRUE

\* db.rs:574-576: p.is_file() of the joined path
ReleasePresent(fs, p) == IsFile(fs, p)

\* db.rs:554-571: the releases joined with their artifact, its job, the
\* package of the job and the release store
ReleasesJoin(d) ==
  {<<a, pk, r, rs>> \in d.artifacts \X d.packages \X d.releases \X d.releaseStores :
     /\ r.artifact = a.id
     /\ r.store = rs.id
     /\ \E j \in d.jobs : j.id = a.job /\ j.package = pk.id}

\* db.rs:574: releases_directory().join(store_name).join(&art.path), the
\* path of an artifact being a relative one
ReleasePath(rs, a) == ReleasesDirectory \o <<rs.name>> \o a.path

\* db.rs:550-591: db releases
Releases ==
  /\ cmd # "idle"
  /\ LET rows == ReleasesJoin(db)
         there == {t \in rows : ReleasePresent(relfs, ReleasePath(t[4], t[1]))}
     IN  /\ listing' = Listing([r \in {<<"release", t[3].id>> : t \in rows} |->
                                  Cardinality({t \in there : t[3].id = r[2]})])
         /\ warned' = {t[3].id : t \in rows \ there}
  /\ cmd' = "releases"
  /\ cmdArg' = NoArgs
  /\ dret' = "ok"
  /\ UNCHANGED <<db, relfs>>
  /\ UNCHANGED <<buildVars, orchVars, hashVars, storeVars, logVars>>

DbNext == Submits \/ JobsCmd \/ JobCmd \/ Releases

(***************************************************************************)
(* The specifications: a build() call, a matches_hash_of call, a store,    *)
(* the report of a job log, the db subcommands.                            *)
(***************************************************************************)
Init == BuildInit /\ OrchIdle /\ HashIdle /\ StoreIdle /\ LogIdle /\ DbIdle
Next == BuildNext
Spec == Init /\ [][Next]_vars

InitHash == BuildIdle /\ OrchIdle /\ HashInit /\ StoreIdle /\ LogIdle /\ DbIdle
SpecHash == InitHash /\ [][HashNext]_vars

InitStore == BuildIdle /\ OrchIdle /\ HashIdle /\ StoreInit /\ LogIdle /\ DbIdle
SpecStore == InitStore /\ [][StoreNext]_vars

InitLog == BuildIdle /\ OrchIdle /\ HashIdle /\ StoreIdle /\ LogInit /\ DbIdle
SpecLog == InitLog /\ [][LogNext]_vars

InitDb == BuildIdle /\ OrchIdle /\ HashIdle /\ StoreIdle /\ LogIdle /\ DbInit
SpecDb == InitDb /\ [][DbNext]_vars

(***************************************************************************)
(* The claims.                                                             *)
(***************************************************************************)
\* the job has been scheduled
Scheduled(j) == jstate[j] \notin {"pending", "skipped"}

\* run has returned Ok to build()
RunReturned == pc \in {"report", "errors", "done"} /\ abortedAt \in {"none", "errors"}

\* C1: every job is started at most once, and a job is started only after
\* every job it depends on, directly or not, has completed with success: no
\* job is running or finished while one of its dependencies is unfinished or
\* failed.
C1_StartedOnceAfterAncestors ==
  \A j \in DOMAIN jstate :
    /\ started[j] <= 1
    /\ Scheduled(j) = (started[j] = 1)
    /\ Scheduled(j) => \A a \in Ancestors(tree, j) : jstate[a] = "succeeded"

\* the root of the diamond has succeeded, after its three ancestors
C1_Witness ==
  /\ tree = AddPackage(DepsDiamond)
  /\ DOMAIN jstate = DOMAIN tree
  /\ jstate[RootPackage] = "succeeded"
  /\ \A j \in DOMAIN jstate : started[j] = 1

\* C2: a job whose ancestor has failed is never scheduled; once run has
\* returned, every job has terminated, the skipped jobs are exactly those
\* with a failed ancestor (the others have run to completion), and run
\* returns exactly one error pair per failed job and none for any other job.
C2_FailureStopsDescendantsOnly ==
  /\ \A j \in DOMAIN jstate :
       (\E a \in Ancestors(tree, j) : jstate[a] \in {"err", "failed"}) => started[j] = 0
  /\ (RunReturned /\ DOMAIN jstate # {}) =>
       \A j \in DOMAIN jstate :
         /\ jstate[j] \in Terminated
         /\ (jstate[j] = "skipped") = (\E a \in Ancestors(tree, j) : jstate[a] = "failed")
         /\ errors[j] = IF jstate[j] = "failed" THEN 1 ELSE 0

\* run has returned; a job failed, a job of the same set succeeded, and the
\* root, which depends on both, was skipped
C2_Witness ==
  /\ RunReturned
  /\ DOMAIN jstate # {}
  /\ jstate[RootPackage] = "skipped"
  /\ \E n \in DOMAIN jobsets : \E j, k \in jobsets[n] :
       /\ jstate[j] = "failed"
       /\ jstate[k] = "succeeded"
       /\ errors[j] = 1
       /\ errors[k] = 0

\* the jobs that hold a permit of the endpoint
RunningOn(e) == {j \in DOMAIN jstate : jstate[j] \in OnEndpoint /\ onEndpoint[j] = e}

\* C3: the number of jobs running on an endpoint at the same time never
\* exceeds the configured capacity of the endpoint.
C3_CapacityRespected ==
  \A e \in Endpoints : Cardinality(RunningOn(e)) <= capacity[e]

\* every endpoint is full while a ready job waits
C3_Witness ==
  /\ pc = "run"
  /\ queue # {}
  /\ \A e \in Endpoints : Cardinality(RunningOn(e)) = capacity[e] /\ capacity[e] > 0

\* C4: when a job has been scheduled, every artifact of each of the jobs it
\* depends on is registered in the staging store; a job counts as succeeded
\* only with all its artifacts registered.
C4_ArtifactsRegisteredBefore ==
  \A j \in DOMAIN jstate :
    /\ jstate[j] = "succeeded" => ArtifactsOf(j) \subseteq staging
    /\ Scheduled(j) => \A a \in Ancestors(tree, j) : ArtifactsOf(a) \subseteq staging

\* a job with dependencies runs, the artifacts of its dependencies registered
C4_Witness ==
  \E j \in DOMAIN jstate :
    /\ jstate[j] = "running"
    /\ tree[j] # {}
    /\ \A a \in tree[j] : ArtifactsOf(a) \subseteq staging

\* C5: no job of a set is started before every job of the earlier sets has
\* terminated (succeeded, failed or skipped).
C5_SetsInOrder ==
  DOMAIN jstate # {} =>
    \A n \in DOMAIN jobsets : \A j \in jobsets[n] :
      started[j] > 0 =>
        \A m \in 1..(n - 1) : \A i \in jobsets[m] : jstate[i] \in Terminated

\* two jobs of the second set run at the same time
C5_Witness ==
  /\ DOMAIN jstate # {}
  /\ Len(jobsets) >= 2
  /\ \E j, k \in jobsets[2] : j # k /\ jstate[j] = "running" /\ jstate[k] = "running"

\* C6: load_from_path fails when the artifact path of its argument is a key
\* of the store, and leaves the store as it was; it never changes what is
\* stored under a key, and it succeeds only by adding a key that was absent.
C6_NoOverwrite ==
  [][op' = "load_from_path" =>
       LET k == StrippedFrom(fsys, root, arg')
       IN  /\ (k.ok /\ k.value \in DOMAIN store) => (~ret'.ok /\ store' = store)
           /\ \A q \in DOMAIN store : q \in DOMAIN store' /\ store'[q] = store[q]
           /\ ret'.ok => /\ k.ok
                         /\ k.value \notin DOMAIN store
                         /\ DOMAIN store' = DOMAIN store \cup {k.value}]_vars

\* a call has failed on a path that the store holds
C6_Witness ==
  /\ op = "load_from_path"
  /\ ret.error = "Entry exists"
  /\ StrippedFrom(fsys, root, arg).value \in DOMAIN store

\* the regular files anywhere below a directory (links are not followed)
RegularFilesUnder(fs, dir) ==
  {f \in DOMAIN fs : StartsWith(f, dir) /\ f # dir /\ fs[f].kind = "file"}

\* C7: load fails when the root is no directory; after a successful load
\* the keys of the store are the root-relative paths of all regular files
\* below the root, and the progress bar was ticked once per file.
C7_LoadFindsEveryFile ==
  op = "load" =>
    IF IsDir(fsys, root)
    THEN ret.ok =>
           /\ DOMAIN store = {Drop(f, Len(root)) : f \in RegularFilesUnder(fsys, root)}
           /\ ticks = Cardinality(RegularFilesUnder(fsys, root))
    ELSE ~ret.ok

\* C8: matches_hash_of returns Ok exactly when the digest of the content, in
\* lower-case hex, equals the declared value.
C8_OkIffDigestMatches ==
  hpc = "returned" =>
    (matched.ok = (declared = LowerHex(DigestOf(hashtype, content))))

\* C9: whatever the reads the content is split into, hash_from_reader yields
\* what hashing the whole content in one shot yields; the hasher has always
\* been fed exactly the bytes read so far, and the loop ends at the first
\* read of zero bytes, with the whole content read.
C9_ChunkingIndependent ==
  /\ hpc = "loop" =>
       hasher = HasherUpdate(HasherNew(hashtype), Take(content, Len(content) - Len(reader)))
  /\ hpc \in {"hashed", "returned"} =>
       /\ reader = << >>
       /\ hasher.total = Len(content)
       /\ hashed = HashValueOf(hashtype, HasherUpdate(HasherNew(hashtype), content))

\* a content longer than the read buffer, read in several reads the last of
\* which left bytes of an earlier read in the buffer, has been hashed
C9_Witness ==
  /\ hpc = "hashed"
  /\ hashed.ok
  /\ Len(content) > BufferLen
  /\ buffer # ReadInto(ZeroBuffer, Drop(content, Len(content) - 1))
  /\ buffer[BufferLen] # 0

\* the tree of the package can be built, and a source of one of its packages
\* has a cached file whose hash is not the declared one
HashMismatch ==
  /\ TreeBuilds(repo.deps)
  /\ \E p \in TreeNodes(repo.deps) : \E src \in repo.sources[p] :
       src.value # LowerHex(DigestOf(src.hashtype, src.file))

\* the steps of build() up to the verification of the sources
UpToVerification == {"image", "head", "find", "releases", "staging", "tree", "verify"}

\* C10: with verification enabled and a source whose cached file does not
\* hash to the declared value, build() gets no further than the
\* verification: it returns an error from there or from an earlier step, the
\* job sets are never made, the orchestrator is never set up, no job is
\* started, and the journal holds no row other than (at most) the Submit row.
C10_MismatchAbortsBeforeRun ==
  (~noVerification /\ HashMismatch) =>
    /\ pc \in UpToVerification \cup {"done"}
    /\ pc = "done" => (outcome = "err" /\ abortedAt \in UpToVerification)
    /\ DOMAIN jstate = {}
    /\ \A j \in DOMAIN started : started[j] = 0
    /\ jobsets = << >>
    /\ staging = {}
    /\ journal \subseteq {<<"submit">>}

\* build() has returned the error of the verification
C10_Witness ==
  /\ ~noVerification
  /\ HashMismatch
  /\ pc = "done"
  /\ abortedAt = "verify"

\* the orchestrator was set up and its run was entered
ReachedRun == DOMAIN jstate # {}

\* every source of every package of the tree passes matches_hash_of, and
\* its cached file hashes to the declared value
SourcesVerified ==
  \A p \in DOMAIN tree : \A src \in repo.sources[p] :
    /\ MatchesHashOf(src.hashtype, src.value, src.file).ok
    /\ src.value = LowerHex(DigestOf(src.hashtype, src.file))

\* C11: whenever a build reaches the run of the orchestrator and the caller
\* did not pass no_verification, every source of every package of the tree
\* has been verified successfully; a run with a source that does not verify
\* is reached only with no_verification.
C11_VerifiedBeforeRun ==
  (ReachedRun /\ ~noVerification) => SourcesVerified

\* a job runs in a build with verification whose tree has a package, not the
\* root, that declares a source
C11_Witness ==
  /\ ~noVerification
  /\ \E p \in DOMAIN tree \ {RootPackage} : repo.sources[p] # {}
  /\ \E j \in DOMAIN jstate : jstate[j] = "running"

\* the package does not allow the image, or denies it
Violates(r, p, img) ==
  \/ r.allowed[p].some /\ img \notin r.allowed[p].images
  \/ r.denied[p].some /\ img \in r.denied[p].images

\* the tree of the package can be built, and one of its packages violates
\* the image policy
PolicyViolated ==
  /\ TreeBuilds(repo.deps)
  /\ \E p \in TreeNodes(repo.deps) : Violates(repo, p, image)

\* the steps of build() up to the check of the image policy
UpToPolicy == UpToVerification \cup {"lint", "policy"}

\* C12: if a package of the tree, the root or any other, has an
\* allowed_images list without the chosen image or a denied_images list with
\* it, build() returns an error from the policy check or an earlier step,
\* no job set is made and no job runs; and the policy check returns an error
\* only if some package violates the policy.
C12_PolicyAbortsBeforeJobSets ==
  /\ PolicyViolated =>
       /\ pc \in UpToPolicy \cup {"done"}
       /\ pc = "done" => (outcome = "err" /\ abortedAt \in UpToPolicy)
       /\ jobsets = << >>
       /\ DOMAIN jstate = {}
  /\ abortedAt = "policy" => PolicyViolated

\* build() has returned the error of the policy check, for a package that
\* is not the root and denies the image
C12_Witness ==
  /\ pc = "done"
  /\ abortedAt = "policy"
  /\ \E p \in DOMAIN tree \ {RootPackage} :
       repo.denied[p].some /\ image \in repo.denied[p].images

\* C13: when the setup of the orchestrator fails because an endpoint rejects
\* the validation, build() has failed and the journal holds no Submit row.
C13_NoSubmitRowOnSetupFailure ==
  (pc = "done" /\ abortedAt = "setup") =>
    (outcome = "err" /\ <<"submit">> \notin journal)

\* the repositories whose tree cannot be built: a cycle A -> B -> A, and a
\* dependency no package of the repository resolves
Unbuildable == {RepoCycle, RepoUnresolved}

\* the steps of build() up to the building of the tree
UpToTree == {"image", "head", "find", "releases", "staging", "tree"}

\* C14: if the dependency tree cannot be built, build() returns an error
\* from the building of the tree or an earlier step: no row is written to
\* the journal, no job set is made, the orchestrator is never set up and no
\* job exists.
C14_TreeFailureAbortsFirst ==
  repo \in Unbuildable =>
    /\ pc \in UpToTree \cup {"done"}
    /\ pc = "done" => (outcome = "err" /\ abortedAt \in UpToTree)
    /\ tree = EmptyTree
    /\ journal = {}
    /\ jobsets = << >>
    /\ DOMAIN jstate = {}
    /\ staging = {}

\* build() has returned the error of the cycle A -> B -> A
C14_Witness ==
  /\ repo = RepoCycle
  /\ pc = "done"
  /\ abortedAt = "tree"

\* the last min(n, Len(ls)) lines, each with its index in ls
LastLines(ls, n) ==
  LET m == Min({n, Len(ls)})
  IN  [k \in 1..m |-> [index |-> Len(ls) - m + k - 1, line |-> ls[Len(ls) - m + k]]]

\* C15: of the L rendered items of the log of a failed job, build() prints
\* exactly the last min(N, L), N being build_error_lines, in the order of the
\* log and each with its index in the whole log; a log of at most N items
\* is printed in full.
C15_PrintsLastLines ==
  lpc \in {"printed", "done"} =>
    /\ Len(lines) = Len(logText)
    /\ printed = LastLines(lines, errorLines)

\* the path is that of a regular file, links followed
RegularFileAt(fs, p) ==
  LET c == Canonicalize(fs, p)
  IN  c.ok /\ c.value \in DOMAIN fs /\ fs[c.value].kind = "file"

\* releases_directory / store_name / artifact path of a release
FileOfRelease(d, r) ==
  LET a == CHOOSE x \in d.artifacts : x.id = r.artifact
      rs == CHOOSE x \in d.releaseStores : x.id = r.store
  IN  ReleasesDirectory \o <<rs.name>> \o a.path

\* how often the listing holds the row
Count(l, row) == IF row \in DOMAIN l THEN l[row] ELSE 0

\* C16: db releases lists a release, once, exactly if the file at
\* releases_directory / store_name / artifact path is a regular file; a
\* release whose file is not there is left out and warned about, and the
\* command does not fail for it.
C16_ReleasesListedIffPresent ==
  cmd = "releases" =>
    /\ dret = "ok"
    /\ DOMAIN listing \subseteq {<<"release", r.id>> : r \in db.releases}
    /\ \A r \in db.releases :
         IF RegularFileAt(relfs, FileOfRelease(db, r))
         THEN Count(listing, <<"release", r.id>>) = 1 /\ r.id \notin warned
         ELSE Count(listing, <<"release", r.id>>) = 0 /\ r.id \in warned

\* a listing with a release whose file is there behind a link, and a warning
\* about one whose file is not
C16_Witness ==
  /\ cmd = "releases"
  /\ warned # {}
  /\ \E r \in db.releases :
       /\ <<"release", r.id>> \in DOMAIN listing
       /\ relfs[FileOfRelease(db, r)].kind = "link"

\* the terminal State items of the log of a job
StateItems(j) ==
  LET items == BuildFrom(j.log)
  IN  {i \in DOMAIN items : IsState(items[i])}

C18_RoundTrip ==
  /\ lpc # "failed"
  /\ lpc \notin {"idle", "fetched"} => parsedLog = BuildFrom(logText)
  /\ lpc = "map" => BuildFrom(lines) = Take(parsedLog, Len(lines))
  /\ lpc \in {"printed", "done", "shown"} => BuildFrom(lines) = parsedLog

\* db job has rendered a log with a Progress item whose line is not the
\* line it was parsed from, and with a State(Err) item
C18_Witness ==
  /\ lpc = "shown"
  /\ \E i \in DOMAIN parsedLog :
       parsedLog[i].kind = "Progress" /\ lines[i] # logText[i]
  /\ \E i \in DOMAIN parsedLog : parsedLog[i].kind = "StateErr"

\* the root package of the submit has the name
RootNamed(d, sub, pkgname) ==
  \E pk \in d.packages : pk.id = sub.package /\ pk.name = pkgname

\* a job of the submit is for a package of the name
HasJobFor(d, sub, pkgname) ==
  \E j \in d.jobs : \E pk \in d.packages :
    j.submit = sub.id /\ j.package = pk.id /\ pk.name = pkgname

\* C19: db submits with with_pkg=P lists, once each, the submits whose
\* root package or one of whose jobs' packages is named P, and no other;
\* with for_pkg=P, once each, the submits whose root package is named P;
\* without a filter every submit once.
C19_SubmitsFilters ==
  cmd = "submits" =>
    /\ DOMAIN listing \subseteq {<<"submit", sub.id>> : sub \in db.submits}
    /\ \A sub \in db.submits :
         Count(listing, <<"submit", sub.id>>) =
           IF cmdArg.with_pkg # ""
           THEN IF RootNamed(db, sub, cmdArg.with_pkg) \/ HasJobFor(db, sub, cmdArg.with_pkg)
                THEN 1 ELSE 0
           ELSE IF cmdArg.for_pkg # ""
           THEN IF RootNamed(db, sub, cmdArg.for_pkg) THEN 1 ELSE 0
           ELSE 1

\* the canonical path lies at or below the root
Under(c, rt) == c.ok /\ Len(c.value) >= Len(rt) /\ SubSeq(c.value, 1, Len(rt)) = rt

\* C20: load_from_path fails, and adds nothing, when its argument does not
\* canonicalize to a path under the root; it succeeds when the argument
\* canonicalizes to a loadable regular file under the root that the store
\* does not hold; and every key it adds is the root-relative path of a
\* regular file that lies under the root.
C20_OnlyPathsUnderRoot ==
  [][op' = "load_from_path" =>
       LET c == Canonicalize(fsys, arg')
           k == Drop(c.value, Len(root))
       IN  /\ ~Under(c, root) => (~ret'.ok /\ store' = store)
           /\ (Under(c, root) /\ fsys[c.value].kind = "file" /\ fsys[c.value].loadable
                 /\ k \notin DOMAIN store)
                => (ret'.ok /\ k \in DOMAIN store')
           /\ \A q \in DOMAIN store' \ DOMAIN store :
                /\ Under(c, root)
                /\ q = k
                /\ fsys[root \o q].kind = "file"]_vars

\* a call with a regular file outside the root has failed, after a call
\* with a path that canonicalizes under the root has added its file
C20_Witness ==
  /\ op = "load_from_path"
  /\ arg = <<"o", "a">>
  /\ ret.error = "Not a sub-path"
  /\ <<"a">> \in DOMAIN store


\* the steps of build() up to the repository lookup
UpToLookup == {"idle", "image", "head", "find"}

\* C23: a build call builds exactly one package: if the repository lookup
\* (by name and version, or by name only) yields more than one package or
\* none, build() returns the error of the lookup, and no store has been
\* loaded, no tree built, no journal row written and no job created; a call
\* that gets past the lookup has found exactly one package.
C23_ExactlyOnePackage ==
  /\ found \notin {-1, 1} =>
       /\ pc = "done"
       /\ outcome = "err"
       /\ abortedAt = "find"
       /\ storesLoaded = {}
       /\ tree = EmptyTree
       /\ journal = {}
       /\ jobsets = << >>
       /\ DOMAIN jstate = {}
       /\ staging = {}
  /\ (pc \notin UpToLookup /\ abortedAt \notin UpToLookup \ {"idle"}) => found = 1

\* the lookup by name found two packages and build() has returned its error
C23_Witness ==
  /\ found = 2
  /\ pc = "done"
  /\ outcome = "err"
  /\ abortedAt = "find"

\* the artifacts the jobs that succeeded have produced
ArtifactsOfSucceeded ==
  {a \in (DOMAIN jstate) \X (1..ArtifactsPerJob) : jstate[a[1]] = "succeeded"}

ErrItems == {i \in DOMAIN parsedLog : parsedLog[i].kind = "StateErr"}

\* the positions of the CurrentPhase items before position n
PhasesBefore(n) == {i \in 1..(n - 1) : parsedLog[i].kind = "CurrentPhase"}

\* the first and the last position of a non-empty set of positions
First(ps) == CHOOSE i \in ps : \A k \in ps : i <= k
Last(ps) == CHOOSE i \in ps : \A k \in ps : i >= k

\* C21: when the log of a failed job has been printed, the phase reported
\* as "Job errored in Phase" is the last CurrentPhase item before the first
\* State(Err) item of the log, whatever phase markers follow the error; a
\* phase is reported only if a State(Err) item was parsed, and if there is
\* none the output says that the error seems not to be caused by the
\* packaging script.
C21_PhaseOfFirstError ==
  lpc = "done" =>
    /\ (trailer.text = "Job errored in Phase") =
         (ErrItems # {} /\ PhasesBefore(First(ErrItems)) # {})
    /\ trailer.text = "Job errored in Phase" =>
         trailer.phase = parsedLog[Last(PhasesBefore(First(ErrItems)))].text
    /\ (trailer.text = "Error seems not to be caused by packaging script.") =
         (ErrItems = {})

\* the phase of the error is reported, and the log has a marker of another
\* phase after the error
C21_Witness ==
  /\ lpc = "done"
  /\ trailer.text = "Job errored in Phase"
  /\ \E i \in DOMAIN parsedLog :
       /\ i > First(ErrItems)
       /\ parsedLog[i].kind = "CurrentPhase"
       /\ parsedLog[i].text # trailer.phase


\* C22: a call of load_from_path that returns an error leaves the store
\* exactly as it was; a call that succeeds adds exactly one key, and every
\* key stored before keeps its artifact; so the set of keys only grows.
C22_LoadFromPathFrame ==
  [][/\ op' = "load_from_path" =>
          /\ ~ret'.ok => store' = store
          /\ ret'.ok =>
               /\ Cardinality(DOMAIN store') = Cardinality(DOMAIN store) + 1
               /\ \A q \in DOMAIN store : q \in DOMAIN store' /\ store'[q] = store[q]
     /\ DOMAIN store \subseteq DOMAIN store']_vars

\* a call has succeeded on a store that held an artifact already, and
\* holds both artifacts now
C22_Witness ==
  /\ op = "load_from_path"
  /\ ret.ok
  /\ Cardinality(DOMAIN store) >= 2
  /\ \E q \in DOMAIN store : store[q] # ret.value

====
